---- MODULE Spec2Model ----
(***************************************************************************)
(* A model of src/dns.py: the DNS wire codec (encode_dns_name,             *)
(* build_query, decode_name, parse_record, parse_dns_packet) at the level  *)
(* of bytes, and the resolver loop (resolve) over the packets the codec    *)
(* returns.                                                                *)
(*                                                                         *)
(* Bytes are the integers 0..255; a bytes object and an ASCII str are both *)
(* sequences of such codes (str.encode("ascii") keeps the codes).  A       *)
(* io.BytesIO reader is the pair (data, position).  A Python exception is  *)
(* the name of the exception class the code raises, "none" when it         *)
(* returns.                                                                *)
(***************************************************************************)
EXTENDS Integers, Sequences, FiniteSets, TLC

VARIABLES
    \* ---- codec ----
    input,      \* the argument of the codec operation under way
    phase,      \* where the codec operation stands
    data,       \* the bytes under the reader (parse_dns_packet's data)
    reader,     \* reader.tell()
    packet,     \* the DNSPacket built so far
    raised,     \* the exception that ended the codec operation, or "none"
    name_out,   \* the result of decode_name in the name round trip
    hops,       \* most compression pointers followed by one decode_name call
    rdlog,      \* per record returned: data length declared, data bytes got
    \* ---- resolver ----
    stack,      \* the active resolve() invocations, outermost first
    status,     \* "running", "returned" or "raised" (top-level resolve)
    result,     \* the value returned or the exception raised
    nqueries,   \* send_query calls made by this top-level resolve
    last,       \* the latest send_query: its arguments, depth and response
    open_sockets    \* sockets send_query created that nothing has closed

codecVars    == <<input, phase, data, reader, packet, raised, name_out, hops,
                  rdlog>>
resolverVars == <<stack, status, result, nqueries, last,
                  open_sockets>>
vars         == <<input, phase, data, reader, packet, raised, name_out, hops,
                  rdlog, stack, status, result, nqueries, last,
                  open_sockets>>

----------------------------------------------------------------------------
(* Program constants. *)

DNS_PORT == 53
TYPE_A   == 1
TYPE_TXT == 16
TYPE_NS  == 2
CLASS_IN == 1

(* Bounds of the model. *)

\* The depth at which the interpreter stops a recursion with RecursionError;
\* the source sets no limit of its own.
RecursionLimit == 8
\* Longest dotted name of the generated name inputs.
MaxNameLen == 4
\* Deepest nesting of resolve() invocations explored.
MaxDepth == 3
\* Most send_query calls explored in one top-level resolve.
MaxQueries == 4
\* The hop limit the design asks for (the source has none).
HopLimit == 3

----------------------------------------------------------------------------
(* Bytes, struct and io.BytesIO. *)

DOT == 46

Min(a, b) == IF a < b THEN a ELSE b

\* struct.pack("!H", x) and struct.pack("!I", x)
Pack16(x) == << (x \div 256) % 256, x % 256 >>
Pack32(x) == << (x \div 16777216) % 256, (x \div 65536) % 256,
                (x \div 256) % 256, x % 256 >>

\* struct.unpack("!H", b)[0] and struct.unpack("!I", b)[0], for len(b) right
Unpack16(b) == b[1] * 256 + b[2]
Unpack32(b) == ((b[1] * 256 + b[2]) * 256 + b[3]) * 256 + b[4]

\* reader.read(n) at position pos: the bytes returned (fewer than n at the
\* end of the buffer, none at or past it) ...
Read(buf, pos, n) == SubSeq(buf, pos + 1, Min(pos + n, Len(buf)))
\* ... and the position it leaves the reader at.
Tell(buf, pos, n) == IF pos >= Len(buf) THEN pos ELSE Min(pos + n, Len(buf))

----------------------------------------------------------------------------
(* encode_dns_name, build_query. *)

\* bytes.split(b"."): the parts between the dots, empty parts kept
RECURSIVE Split(_)
Split(s) ==
    IF \A i \in 1..Len(s) : s[i] # DOT
    THEN << s >>
    ELSE LET i == CHOOSE k \in 1..Len(s) :
                      s[k] = DOT /\ \A j \in 1..(k - 1) : s[j] # DOT
         IN  << SubSeq(s, 1, i - 1) >> \o Split(SubSeq(s, i + 1, Len(s)))

\* b".".join(parts)
RECURSIVE Join(_)
Join(parts) ==
    IF parts = << >> THEN << >>
    ELSE IF Len(parts) = 1 THEN parts[1]
    ELSE parts[1] \o << DOT >> \o Join(Tail(parts))

\* A mutant of EncodePart: the length byte is left out.
EncodePartNoLength(part) == part

\* bytes([len(part)]) + part
EncodePart(part) == << Len(part) >> \o part

RECURSIVE EncodeParts(_)
EncodeParts(parts) ==
    IF parts = << >> THEN << >>
    ELSE EncodePart(parts[1]) \o EncodeParts(Tail(parts))

\* encode_dns_name(domain_name): [err, val]
encode_dns_name(domain_name) ==
    IF \E i \in 1..Len(domain_name) : domain_name[i] > 127
    THEN [err |-> "UnicodeEncodeError", val |-> << >>]
    ELSE LET parts == Split(domain_name)
         IN  IF \E i \in 1..Len(parts) : Len(parts[i]) > 255
             THEN [err |-> "ValueError", val |-> << >>]
             ELSE [err |-> "none", val |-> EncodeParts(parts) \o << 0 >>]

\* A mutant of header_to_bytes: flags packed before id.
header_to_bytes_flags_first(h) ==
    Pack16(h.flags) \o Pack16(h.id) \o Pack16(h.num_questions)
        \o Pack16(h.num_answers) \o Pack16(h.num_authorities)
        \o Pack16(h.num_additionals)

\* header_to_bytes(header)
header_to_bytes(h) ==
    Pack16(h.id) \o Pack16(h.flags) \o Pack16(h.num_questions)
        \o Pack16(h.num_answers) \o Pack16(h.num_authorities)
        \o Pack16(h.num_additionals)

\* question_to_bytes(question)
question_to_bytes(q) == q.name \o Pack16(q.type_) \o Pack16(q.class_)

\* build_query(domain_name, record_type), id the value random.randint drew
build_query(domain_name, record_type, id) ==
    LET name == encode_dns_name(domain_name)
    IN  IF name.err # "none"
        THEN [err |-> name.err, val |-> << >>]
        ELSE [err |-> "none",
              val |-> header_to_bytes([id |-> id, flags |-> 0,
                                     num_questions |-> 1, num_answers |-> 0,
                                     num_authorities |-> 0,
                                     num_additionals |-> 0])
                      \o question_to_bytes([name |-> name.val,
                                          type_ |-> record_type,
                                          class_ |-> CLASS_IN])]

----------------------------------------------------------------------------
(* parse_header, decode_name_simple, decode_name, decode_compressed_name. *)

\* parse_header(reader): [err, val, pos]
parse_header(buf, pos) ==
    LET d == Read(buf, pos, 12)
    IN  IF Len(d) # 12
        THEN [err |-> "struct.error", val |-> << >>, pos |-> Tell(buf, pos, 12)]
        ELSE [err |-> "none",
              val |-> [id              |-> Unpack16(SubSeq(d, 1, 2)),
                       flags           |-> Unpack16(SubSeq(d, 3, 4)),
                       num_questions   |-> Unpack16(SubSeq(d, 5, 6)),
                       num_answers     |-> Unpack16(SubSeq(d, 7, 8)),
                       num_authorities |-> Unpack16(SubSeq(d, 9, 10)),
                       num_additionals |-> Unpack16(SubSeq(d, 11, 12))],
              pos |-> Tell(buf, pos, 12)]

\* decode_name_simple(reader), parts the labels read so far: [err, val, pos]
RECURSIVE decode_name_simple_from(_, _, _)
decode_name_simple_from(buf, pos, parts) ==
    LET b == Read(buf, pos, 1)
        p == Tell(buf, pos, 1)
    IN  IF b = << >>
        THEN [err |-> "IndexError", val |-> << >>, pos |-> p]
        ELSE IF b[1] = 0
        THEN [err |-> "none", val |-> Join(parts), pos |-> p]
        ELSE decode_name_simple_from(buf, Tell(buf, p, b[1]),
                                  Append(parts, Read(buf, p, b[1])))

decode_name_simple(buf, pos) == decode_name_simple_from(buf, pos, << >>)

\* length & 0b1100_0000, taken as a truth value
IsCompressed(length) == (length \div 64) % 4 # 0

\* A mutant of PointerOf: the two flag bits are kept in the offset.
PointerOfUnmasked(length, low) == Unpack16(<< length, low >>)

\* struct.unpack("!H", bytes([length & 0b0011_1111]) + low)[0]
PointerOf(length, low) == Unpack16(<< length % 64, low >>)

\* decode_name(reader) and decode_compressed_name(length, reader).  depth is
\* the number of pointers followed to get here: each one nests a further
\* pair of calls, so the interpreter ends the chain with RecursionError at
\* RecursionLimit.  Result: [err, val, pos, hops], hops the deepest depth.
\* A mutant of SeekBack: the reader stays where the pointed-to name ended.
StayAtTarget(r, current_pos) == r

\* reader.seek(current_pos) after the pointed-to name r was decoded
SeekBack(r, current_pos) == [r EXCEPT !.pos = current_pos]

RECURSIVE decode_name_from(_, _, _, _), decode_compressed_name(_, _, _, _)
decode_name_from(buf, pos, parts, depth) ==
    LET b == Read(buf, pos, 1)
        p == Tell(buf, pos, 1)
    IN  IF b = << >>
        THEN [err |-> "IndexError", val |-> << >>, pos |-> p, hops |-> depth]
        ELSE IF b[1] = 0
        THEN [err |-> "none", val |-> Join(parts), pos |-> p, hops |-> depth]
        ELSE IF IsCompressed(b[1])
        THEN LET r == decode_compressed_name(b[1], buf, p, depth)
             IN  IF r.err # "none" THEN r
                 ELSE [r EXCEPT !.val = Join(Append(parts, r.val))]
        ELSE decode_name_from(buf, Tell(buf, p, b[1]),
                            Append(parts, Read(buf, p, b[1])), depth)

decode_compressed_name(length, buf, pos, depth) ==
    LET low         == Read(buf, pos, 1)
        current_pos == Tell(buf, pos, 1)
    IN  IF low = << >>
        THEN [err |-> "struct.error", val |-> << >>, pos |-> current_pos,
              hops |-> depth]
        ELSE IF depth + 1 >= RecursionLimit
        THEN [err |-> "RecursionError", val |-> << >>, pos |-> current_pos,
              hops |-> depth + 1]
        ELSE LET r == decode_name_from(buf, PointerOf(length, low[1]), << >>,
                                     depth + 1)
             IN  IF r.err # "none" THEN r
                 ELSE SeekBack(r, current_pos)

decode_name(buf, pos) == decode_name_from(buf, pos, << >>, 0)

----------------------------------------------------------------------------
(* ip_to_string, parse_question, parse_record, parse_dns_packet. *)

\* str(x) for a byte x: its decimal digits
RECURSIVE StrOfInt(_)
StrOfInt(x) ==
    IF x < 10 THEN << 48 + x >> ELSE StrOfInt(x \div 10) \o << 48 + (x % 10) >>

\* ip_to_string(ip)
ip_to_string(ip) == Join([i \in 1..Len(ip) |-> StrOfInt(ip[i])])

\* parse_question(reader): [err, val, pos]
parse_question(buf, pos) ==
    LET n == decode_name_simple(buf, pos)
        d == Read(buf, n.pos, 4)
    IN  IF n.err # "none" THEN n
        ELSE IF Len(d) # 4
        THEN [err |-> "struct.error", val |-> << >>, pos |-> Tell(buf, n.pos, 4)]
        ELSE [err |-> "none",
              val |-> [name   |-> n.val,
                       type_  |-> Unpack16(SubSeq(d, 1, 2)),
                       class_ |-> Unpack16(SubSeq(d, 3, 4))],
              pos |-> Tell(buf, n.pos, 4)]

\* parse_record(reader): [err, val, pos, hops, data_len, got]; data_len is
\* the declared data length and got the number of data bytes the record
\* was built from (both 0 when it fails before the data).
\* A mutant of parse_record: after the data of an NS record the reader is
\* put data_len bytes past the start of the data.
parse_record_by_length(buf, pos) ==
    LET n        == decode_name(buf, pos)
        d        == Read(buf, n.pos, 10)
        p        == Tell(buf, n.pos, 10)
        type_    == Unpack16(SubSeq(d, 1, 2))
        class_   == Unpack16(SubSeq(d, 3, 4))
        ttl      == Unpack32(SubSeq(d, 5, 8))
        data_len == Unpack16(SubSeq(d, 9, 10))
        Rec(x)   == [name |-> n.val, type_ |-> type_, class_ |-> class_,
                     ttl |-> ttl, data |-> x]
    IN  IF n.err # "none"
        THEN [err |-> n.err, val |-> << >>, pos |-> n.pos, hops |-> n.hops,
              data_len |-> 0, got |-> 0]
        ELSE IF Len(d) # 10
        THEN [err |-> "struct.error", val |-> << >>, pos |-> p,
              hops |-> n.hops, data_len |-> 0, got |-> 0]
        ELSE IF type_ = TYPE_NS
        THEN LET m == decode_name(buf, p)
             IN  IF m.err # "none"
                 THEN [err |-> m.err, val |-> << >>, pos |-> m.pos,
                       hops |-> IF m.hops > n.hops THEN m.hops ELSE n.hops,
                       data_len |-> data_len, got |-> 0]
                 ELSE [err |-> "none", val |-> Rec(m.val),
                       pos |-> Tell(buf, p, data_len),
                       hops |-> IF m.hops > n.hops THEN m.hops ELSE n.hops,
                       data_len |-> data_len, got |-> m.pos - p]
        ELSE IF type_ = TYPE_A
        THEN [err |-> "none", val |-> Rec(ip_to_string(Read(buf, p, data_len))),
              pos |-> Tell(buf, p, data_len), hops |-> n.hops,
              data_len |-> data_len, got |-> Len(Read(buf, p, data_len))]
        ELSE [err |-> "none", val |-> Rec(Read(buf, p, data_len)),
              pos |-> Tell(buf, p, data_len), hops |-> n.hops,
              data_len |-> data_len, got |-> Len(Read(buf, p, data_len))]

parse_record(buf, pos) ==
    LET n        == decode_name(buf, pos)
        d        == Read(buf, n.pos, 10)
        p        == Tell(buf, n.pos, 10)
        type_    == Unpack16(SubSeq(d, 1, 2))
        class_   == Unpack16(SubSeq(d, 3, 4))
        ttl      == Unpack32(SubSeq(d, 5, 8))
        data_len == Unpack16(SubSeq(d, 9, 10))
        Rec(x)   == [name |-> n.val, type_ |-> type_, class_ |-> class_,
                     ttl |-> ttl, data |-> x]
    IN  IF n.err # "none"
        THEN [err |-> n.err, val |-> << >>, pos |-> n.pos, hops |-> n.hops,
              data_len |-> 0, got |-> 0]
        ELSE IF Len(d) # 10
        THEN [err |-> "struct.error", val |-> << >>, pos |-> p,
              hops |-> n.hops, data_len |-> 0, got |-> 0]
        ELSE IF type_ = TYPE_NS
        THEN LET m == decode_name(buf, p)
             IN  IF m.err # "none"
                 THEN [err |-> m.err, val |-> << >>, pos |-> m.pos,
                       hops |-> IF m.hops > n.hops THEN m.hops ELSE n.hops,
                       data_len |-> data_len, got |-> 0]
                 ELSE [err |-> "none", val |-> Rec(m.val), pos |-> m.pos,
                       hops |-> IF m.hops > n.hops THEN m.hops ELSE n.hops,
                       data_len |-> data_len, got |-> m.pos - p]
        ELSE IF type_ = TYPE_A
        THEN [err |-> "none", val |-> Rec(ip_to_string(Read(buf, p, data_len))),
              pos |-> Tell(buf, p, data_len), hops |-> n.hops,
              data_len |-> data_len, got |-> Len(Read(buf, p, data_len))]
        ELSE [err |-> "none", val |-> Rec(Read(buf, p, data_len)),
              pos |-> Tell(buf, p, data_len), hops |-> n.hops,
              data_len |-> data_len, got |-> Len(Read(buf, p, data_len))]

\* [parse_question(reader) for _ in range(n)]: [err, val, pos]
RECURSIVE ParseQuestions(_, _, _, _)
ParseQuestions(buf, pos, n, acc) ==
    IF n = 0 THEN [err |-> "none", val |-> acc, pos |-> pos]
    ELSE LET q == parse_question(buf, pos)
         IN  IF q.err # "none" THEN [err |-> q.err, val |-> acc, pos |-> q.pos]
             ELSE ParseQuestions(buf, q.pos, n - 1, Append(acc, q.val))

\* [parse_record(reader) for _ in range(n)]: [err, val, pos]
RECURSIVE ParseRecords(_, _, _, _)
ParseRecords(buf, pos, n, acc) ==
    IF n = 0 THEN [err |-> "none", val |-> acc, pos |-> pos]
    ELSE LET r == parse_record(buf, pos)
         IN  IF r.err # "none" THEN [err |-> r.err, val |-> acc, pos |-> r.pos]
             ELSE ParseRecords(buf, r.pos, n - 1, Append(acc, r.val))

\* parse_dns_packet(data): [err, val]
parse_dns_packet(buf) ==
    LET h  == parse_header(buf, 0)
        qs == ParseQuestions(buf, h.pos, h.val.num_questions, << >>)
        an == ParseRecords(buf, qs.pos, h.val.num_answers, << >>)
        au == ParseRecords(buf, an.pos, h.val.num_authorities, << >>)
        ad == ParseRecords(buf, au.pos, h.val.num_additionals, << >>)
    IN  IF h.err # "none" THEN [err |-> h.err, val |-> << >>]
        ELSE IF qs.err # "none" THEN [err |-> qs.err, val |-> << >>]
        ELSE IF an.err # "none" THEN [err |-> an.err, val |-> << >>]
        ELSE IF au.err # "none" THEN [err |-> au.err, val |-> << >>]
        ELSE IF ad.err # "none" THEN [err |-> ad.err, val |-> << >>]
        ELSE [err |-> "none",
              val |-> [header |-> h.val, questions |-> qs.val,
                       answers |-> an.val, authorities |-> au.val,
                       additionals |-> ad.val]]

----------------------------------------------------------------------------
(* The inputs of the codec: names, query ids and received buffers. *)

\* 'a', 'b' and '.'
Alphabet == { 97, 98, DOT }

\* n bytes 'a'
Label(n) == [i \in 1..n |-> 97]

SeqsUpTo(S, n) == UNION { [1..k -> S] : k \in 0..n }

\* Every name over the alphabet, of MaxNameLen characters at most, and names
\* at the label lengths where the top bits of the length byte come into play.
Names ==
    SeqsUpTo(Alphabet, MaxNameLen)
        \cup { Label(63), Label(63) \o << DOT, 97 >>, Label(64),
               << 98, DOT >> \o Label(64), Label(192) }

\* Values random.randint(0, 65535) can draw.
Ids == { 0, 4660, 65535 }

\* A resource record and a whole message on the wire, as a peer builds them.
WireRecord(name, type_, class_, ttl, data_len, rdata) ==
    name \o Pack16(type_) \o Pack16(class_) \o Pack32(ttl) \o Pack16(data_len)
         \o rdata

WireQuestion(name, type_) == name \o Pack16(type_) \o Pack16(CLASS_IN)

RECURSIVE Concat(_)
Concat(ss) == IF ss = << >> THEN << >> ELSE ss[1] \o Concat(Tail(ss))

WireMessage(id, qs, an, au, ad) ==
    header_to_bytes([id |-> id, flags |-> 32768,
                   num_questions |-> Len(qs), num_answers |-> Len(an),
                   num_authorities |-> Len(au), num_additionals |-> Len(ad)])
        \o Concat(qs) \o Concat(an) \o Concat(au) \o Concat(ad)

\* A compression pointer to byte offset 12, where the question's name starts.
PointerTo12 == << 192, 12 >>

\* Question names on the wire: encoded names, and a 192-byte label whose
\* first byte, 205, is the offset of the name's terminating zero byte.
QuestionNames ==
    { encode_dns_name(n).val :
        n \in { << >>, << 97 >>, << 97, DOT, 98 >>, << 97, 98, DOT, 98, DOT, 97 >>,
                Label(63) } }
        \cup { << 192, 205 >> \o Label(191) \o << 0 >> }

\* Responses whose answer's name is a pointer to the question's name.
PointerResponses ==
    { WireMessage(id, << WireQuestion(q, TYPE_A) >>,
                  << WireRecord(PointerTo12, TYPE_A, CLASS_IN, 300, 4,
                                << 93, 184, 216, 34 >>) >>, << >>, << >>) :
        q \in QuestionNames, id \in Ids }

\* A referral: one question, no answer, an NS authority whose name points to
\* the question and whose data ends in a pointer, a TXT and an A additional.
ReferralMessage ==
    WireMessage(7, << WireQuestion(encode_dns_name(<< 97, DOT, 98 >>).val, TYPE_A) >>,
                << >>,
                << WireRecord(PointerTo12, TYPE_NS, CLASS_IN, 60, 5,
                              << 2, 110, 115, 192, 14 >>) >>,
                << WireRecord(<< 2, 110, 115, 192, 14 >>, TYPE_TXT, CLASS_IN, 60, 3,
                              << 2, 104, 105 >>),
                   WireRecord(<< 2, 110, 115, 192, 14 >>, TYPE_A, CLASS_IN, 60, 4,
                              << 192, 5, 6, 30 >>) >>)

\* An answer: one question and one A answer.
AnswerMessage ==
    WireMessage(9, << WireQuestion(encode_dns_name(<< 97, DOT, 98 >>).val, TYPE_A) >>,
                << WireRecord(PointerTo12, TYPE_A, CLASS_IN, 300, 4,
                              << 93, 184, 216, 34 >>) >>, << >>, << >>)

Prefixes(b) == { SubSeq(b, 1, k) : k \in 0..Len(b) }

\* Every buffer a receive can cut short.
TruncatedResponses == Prefixes(ReferralMessage) \cup Prefixes(AnswerMessage)

\* Names whose pointers never reach an end: a pointer to itself, two pointers
\* to each other, and a label followed by a forward pointer that leads back.
CyclicNames ==
    { << 192, 12 >>,
      << 192, 14, 192, 12 >>,
      << 1, 97, 192, 16, 192, 12 >> }

\* The same names alone in a buffer, the pointers turned to its start.
CyclicBuffers ==
    { << 192, 0 >>,
      << 192, 2, 192, 0 >>,
      << 1, 97, 192, 4, 192, 0 >> }

\* Names alone in a buffer whose first or second element has one or both of
\* the top two bits set; the offsets lead, in one hop or two, forwards or
\* backwards, to the label "a".
PointerBuffers ==
    { << 64, 3, 0, 1, 97, 0 >>,
      << 128, 3, 0, 1, 97, 0 >>,
      << 192, 3, 0, 1, 97, 0 >>,
      << 192, 4, 1, 98, 1, 97, 0 >>,
      << 1, 98, 192, 5, 0, 192, 8, 0, 1, 97, 0 >>,
      << 1, 98, 192, 4, 192, 7, 0, 1, 97, 0 >>,
      << 1, 97, 0, 1, 98, 192, 0 >> }

CyclicResponses ==
    { WireMessage(3, << >>,
                  << WireRecord(n, TYPE_A, CLASS_IN, 300, 4, << 10, 0, 0, 1 >>) >>,
                  << >>, << >>) : n \in CyclicNames }

\* Whole responses whose A answer declares, and carries, 0, 3 or 5 data bytes.
AddressResponses ==
    { WireMessage(5, << WireQuestion(encode_dns_name(<< 97, DOT, 98 >>).val, TYPE_A) >>,
                  << WireRecord(PointerTo12, TYPE_A, CLASS_IN, 300, Len(ip), ip) >>,
                  << >>, << >>) :
        ip \in { << >>, << 10, 0, 0 >>, << 10, 0, 0, 1, 2 >> } }

\* The name "ns.a.b" as NS data, its last two labels by pointer.
NsData == << 2, 110, 115 >> \o PointerTo12

\* Whole responses with an NS authority whose data is NsData, 5 bytes, and
\* whose declared data length is 0, 5 or 9, then one A additional.
NsResponses ==
    { WireMessage(11, << WireQuestion(encode_dns_name(<< 97, DOT, 98 >>).val, TYPE_A) >>,
                  << >>,
                  << WireRecord(PointerTo12, TYPE_NS, CLASS_IN, 60, d, NsData) >>,
                  << WireRecord(PointerTo12, TYPE_A, CLASS_IN, 60, 4,
                                << 192, 5, 6, 30 >>) >>) :
        d \in { 0, 5, 9 } }

ResponseBuffers ==
    PointerResponses \cup TruncatedResponses \cup CyclicResponses
        \cup AddressResponses \cup NsResponses

Inputs ==
    [kind : {"name"}, name : Names]
        \cup [kind : {"query"}, name : Names, record_type : {TYPE_A, TYPE_TXT},
              id : Ids]
        \cup [kind : {"response"}, bytes : ResponseBuffers]
        \cup [kind : {"wire"}, bytes : CyclicBuffers \cup PointerBuffers]

----------------------------------------------------------------------------
(* The codec as a state machine: the name round trip, build_query followed *)
(* by parse_dns_packet, and parse_dns_packet on a received buffer, one     *)
(* parse_header, parse_question or parse_record call per step.             *)

NoHeader == [id |-> 0, flags |-> 0, num_questions |-> 0, num_answers |-> 0,
             num_authorities |-> 0, num_additionals |-> 0]

NoPacket == [header |-> NoHeader, questions |-> << >>, answers |-> << >>,
             authorities |-> << >>, additionals |-> << >>]

NoResult == [value |-> << >>, exc |-> "none"]

NoLast == [ip |-> << >>, domain_name |-> << >>, record_type |-> 0, depth |-> 0,
           outcome |-> "none", response |-> NoPacket]

ResolverIdle ==
    /\ stack = << >>
    /\ status = "idle"
    /\ result = NoResult
    /\ nqueries = 0
    /\ last = NoLast
    /\ open_sockets = 0

CodecInit ==
    /\ input \in Inputs
    /\ phase = CASE input.kind = "name"     -> "encode"
                 [] input.kind = "wire"     -> "encoded"
                 [] input.kind = "query"    -> "build"
                 [] input.kind = "response" -> "header"
    /\ data = IF input.kind \in {"response", "wire"} THEN input.bytes ELSE << >>
    /\ reader = 0
    /\ packet = NoPacket
    /\ raised = "none"
    /\ name_out = << >>
    /\ hops = 0
    /\ rdlog = << >>
    /\ ResolverIdle

\* encode_dns_name(name)
EncodeName ==
    /\ phase = "encode"
    /\ LET e == encode_dns_name(input.name)
       IN  /\ data' = e.val
           /\ raised' = e.err
           /\ phase' = IF e.err = "none" THEN "encoded" ELSE "failed"
    /\ UNCHANGED <<input, reader, packet, name_out, hops, rdlog, resolverVars>>

\* decode_name(io.BytesIO(encoded))
DecodeEncoded ==
    /\ phase = "encoded"
    /\ LET r == decode_name(data, 0)
       IN  /\ name_out' = r.val
           /\ reader' = r.pos
           /\ hops' = r.hops
           /\ raised' = r.err
           /\ phase' = IF r.err = "none" THEN "decoded" ELSE "failed"
    /\ UNCHANGED <<input, data, packet, rdlog, resolverVars>>

\* build_query(name, record_type), handed to parse_dns_packet
BuildQueryStep ==
    /\ phase = "build"
    /\ LET q == build_query(input.name, input.record_type, input.id)
       IN  /\ data' = q.val
           /\ raised' = q.err
           /\ phase' = IF q.err = "none" THEN "header" ELSE "failed"
    /\ UNCHANGED <<input, reader, packet, name_out, hops, rdlog, resolverVars>>

\* parse_dns_packet: reader = io.BytesIO(data); header = parse_header(reader)
ParseHeaderStep ==
    /\ phase = "header"
    /\ LET h == parse_header(data, reader)
       IN  /\ reader' = h.pos
           /\ raised' = h.err
           /\ packet' = IF h.err = "none" THEN [packet EXCEPT !.header = h.val]
                        ELSE packet
           /\ phase' = IF h.err = "none" THEN "body" ELSE "failed"
    /\ UNCHANGED <<input, data, name_out, hops, rdlog, resolverVars>>

\* The list comprehension parse_dns_packet is in, from the header counts.
\* A mutant of Section: the additional section is never read.
SectionWithoutAdditionals ==
    IF Len(packet.questions) < packet.header.num_questions THEN "questions"
    ELSE IF Len(packet.answers) < packet.header.num_answers THEN "answers"
    ELSE IF Len(packet.authorities) < packet.header.num_authorities
    THEN "authorities"
    ELSE "return"

Section ==
    IF Len(packet.questions) < packet.header.num_questions THEN "questions"
    ELSE IF Len(packet.answers) < packet.header.num_answers THEN "answers"
    ELSE IF Len(packet.authorities) < packet.header.num_authorities
    THEN "authorities"
    ELSE IF Len(packet.additionals) < packet.header.num_additionals
    THEN "additionals"
    ELSE "return"

\* one parse_question(reader) of the questions comprehension
ParseQuestionStep ==
    /\ phase = "body"
    /\ Section = "questions"
    /\ LET q == parse_question(data, reader)
       IN  /\ reader' = q.pos
           /\ raised' = q.err
           /\ packet' = IF q.err = "none"
                        THEN [packet EXCEPT !.questions = Append(@, q.val)]
                        ELSE packet
           /\ phase' = IF q.err = "none" THEN "body" ELSE "failed"
    /\ UNCHANGED <<input, data, name_out, hops, rdlog, resolverVars>>

\* one parse_record(reader) of the comprehension of section sec
ParseRecordStep(sec) ==
    /\ phase = "body"
    /\ Section = sec
    /\ LET r == parse_record(data, reader)
       IN  /\ reader' = r.pos
           /\ raised' = r.err
           /\ hops' = IF r.hops > hops THEN r.hops ELSE hops
           /\ packet' = IF r.err = "none"
                        THEN [packet EXCEPT ![sec] = Append(@, r.val)]
                        ELSE packet
           /\ rdlog' = IF r.err = "none"
                       THEN Append(rdlog, [type_ |-> r.val.type_,
                                           declared |-> r.data_len,
                                           got |-> r.got])
                       ELSE rdlog
           /\ phase' = IF r.err = "none" THEN "body" ELSE "failed"
    /\ UNCHANGED <<input, data, name_out, resolverVars>>

ParseAnswerStep     == ParseRecordStep("answers")
ParseAuthorityStep  == ParseRecordStep("authorities")
ParseAdditionalStep == ParseRecordStep("additionals")

\* return DNSPacket(header, questions, answers, authorities, additionals)
ReturnPacket ==
    /\ phase = "body"
    /\ Section = "return"
    /\ phase' = "parsed"
    /\ UNCHANGED <<input, data, reader, packet, raised, name_out, hops, rdlog,
                   resolverVars>>

CodecNext ==
    \/ EncodeName
    \/ DecodeEncoded
    \/ BuildQueryStep
    \/ ParseHeaderStep
    \/ ParseQuestionStep
    \/ ParseAnswerStep
    \/ ParseAuthorityStep
    \/ ParseAdditionalStep
    \/ ReturnPacket

SpecCodec == CodecInit /\ [][CodecNext]_vars

----------------------------------------------------------------------------
(* The resolver: get_answer, get_nameserver_ip, get_nameserver, resolve. *)

\* "198.41.0.4"
ROOT == << 49, 57, 56, 46, 52, 49, 46, 48, 46, 52 >>

\* An Optional[str]: << >> is None, << s >> is the str s.
None == << >>
Some(s) == << s >>

\* The first record of type type_ in a section, as a sequence of none or one.
RECURSIVE FirstOfType(_, _)
FirstOfType(records, type_) ==
    IF records = << >> THEN << >>
    ELSE IF records[1].type_ = type_ THEN << records[1] >>
    ELSE FirstOfType(Tail(records), type_)

\* get_answer(packet)
get_answer(p) ==
    LET a == FirstOfType(p.answers, TYPE_A)
    IN  IF a = << >> THEN None ELSE Some(a[1].data)

\* get_nameserver_ip(packet)
get_nameserver_ip(p) ==
    LET a == FirstOfType(p.additionals, TYPE_A)
    IN  IF a = << >> THEN None ELSE Some(a[1].data)

\* get_nameserver(packet); a.data.decode("utf-8") keeps ASCII codes
get_nameserver(p) ==
    LET a == FirstOfType(p.authorities, TYPE_NS)
    IN  IF a = << >> THEN None ELSE Some(a[1].data)

\* A mutant of Truthy: the test `is not None`, which "" passes.
IsNotNone(opt) == opt # None

\* The truth value of an Optional[str] in `if x := ...`: None and "" are false.
Truthy(opt) == opt # None /\ opt[1] # << >>

\* What the transport can deliver to one send_query: sections as a peer
\* serialises them, after a question for "a.b".
QName == encode_dns_name(<< 97, DOT, 98 >>).val

WireA(ip)   == WireRecord(PointerTo12, TYPE_A, CLASS_IN, 300, Len(ip), ip)
WireNS(n)   == WireRecord(PointerTo12, TYPE_NS, CLASS_IN, 300, Len(n), n)
WireTXT     == WireRecord(PointerTo12, TYPE_TXT, CLASS_IN, 300, 3, << 2, 104, 105 >>)

AnswerSections ==
    { << >>,
      << WireA(<< 93, 184, 216, 34 >>) >>,
      << WireA(<< >>) >>,
      << WireTXT >>,
      << WireTXT, WireA(<< 93, 184, 216, 34 >>) >> }

AuthoritySections ==
    { << >>,
      << WireNS(<< 2, 110, 115, 192, 14 >>) >>,
      << WireNS(<< 0 >>) >>,
      << WireA(<< 10, 0, 0, 1 >>), WireNS(<< 2, 110, 115, 192, 14 >>) >> }

AdditionalSections ==
    { << >>,
      << WireA(<< 192, 5, 6, 30 >>) >>,
      << WireA(<< >>), WireA(<< 192, 5, 6, 30 >>) >>,
      << WireTXT, WireA(<< 192, 5, 6, 30 >>) >> }

Datagrams ==
    { WireMessage(1, << WireQuestion(QName, TYPE_A) >>, an, au, ad) :
        an \in AnswerSections, au \in AuthoritySections,
        ad \in AdditionalSections }

\* The packets send_query returns for them.
Responses == { parse_dns_packet(d).val : d \in Datagrams }

\* Datagrams parse_dns_packet raises on, with what it raises.
BadDatagrams == { SubSeq(AnswerMessage, 1, 20), << >> }
DecodeErrors == { parse_dns_packet(d).err : d \in BadDatagrams }

\* The requests made of the top-level resolve.
Requests == [domain_name : { << 97, DOT, 98 >> }, record_type : { TYPE_A, TYPE_TXT }]

\* A mutant of Frame: the invocation starts at some other address.
FrameElsewhere(domain_name, record_type) ==
    [domain_name |-> domain_name, record_type |-> record_type,
     nameserver |-> << 49, 46, 49, 46, 49, 46, 49 >>]

\* The locals of resolve(domain_name, record_type) on entry:
\* nameserver = "198.41.0.4"
Frame(domain_name, record_type) ==
    [domain_name |-> domain_name, record_type |-> record_type,
     nameserver |-> ROOT]

Init ==
    /\ \E r \in Requests : stack = << Frame(r.domain_name, r.record_type) >>
    /\ status = "running"
    /\ result = NoResult
    /\ nqueries = 0
    /\ last = NoLast
    /\ open_sockets = 0
    /\ input = [kind |-> "none"]
    /\ phase = "idle"
    /\ data = << >>
    /\ reader = 0
    /\ packet = NoPacket
    /\ raised = "none"
    /\ name_out = << >>
    /\ hops = 0
    /\ rdlog = << >>

Top == stack[Len(stack)]

\* The loop body up to the response: send_query(nameserver, domain_name,
\* record_type) of the innermost resolve built its query, sent it and came
\* back with outcome "packet", the packet p, or "raised".
Queried(outcome, p) ==
    /\ status = "running"
    /\ nqueries < MaxQueries
    /\ encode_dns_name(Top.domain_name).err = "none"
    /\ nqueries' = nqueries + 1
    /\ last' = [ip |-> Top.nameserver, domain_name |-> Top.domain_name,
                record_type |-> Top.record_type, depth |-> Len(stack),
                outcome |-> outcome, response |-> p]

\* The socket of the send_query that just ended.  send_query has no close():
\* when it returns, its local `sock` is dropped, and the socket is closed
\* then only if the interpreter finalizes unreferenced objects at once
\* (reference counting), otherwise it is left open; when it raises, the
\* traceback keeps the frame and its socket, which stays open.  left is
\* the set of numbers of sockets the call can leave open.
SocketLeft(left) == \E n \in left : open_sockets' = open_sockets + n

\* A resolve that caught what send_query raised and went round its loop again.
RaiseAndRetry(exc) ==
    /\ status' = status
    /\ result' = [value |-> << >>, exc |-> exc]
    /\ stack' = stack

\* An exception leaves every enclosing resolve: none of them catches it.
Raise(exc) ==
    /\ status' = "raised"
    /\ result' = [value |-> << >>, exc |-> exc]
    /\ stack' = << >>

\* if ip := get_answer(response): return ip      -- into the caller's
\* nameserver = resolve(ns_domain, TYPE_A), or out of the top-level call
ReturnAnswer ==
    \E p \in Responses :
        /\ Queried("packet", p)
        /\ SocketLeft({0, 1})
        /\ Truthy(get_answer(p))
        /\ IF Len(stack) = 1
           THEN /\ status' = "returned"
                /\ result' = [value |-> get_answer(p)[1], exc |-> "none"]
                /\ stack' = << >>
           ELSE /\ stack' = [SubSeq(stack, 1, Len(stack) - 1)
                               EXCEPT ![Len(stack) - 1].nameserver = get_answer(p)[1]]
                /\ UNCHANGED <<status, result>>
        /\ UNCHANGED codecVars

\* elif new_nameserver := get_nameserver_ip(response): nameserver = new_nameserver
FollowGlue ==
    \E p \in Responses :
        /\ Queried("packet", p)
        /\ SocketLeft({0, 1})
        /\ ~Truthy(get_answer(p))
        /\ Truthy(get_nameserver_ip(p))
        /\ stack' = [stack EXCEPT ![Len(stack)].nameserver = get_nameserver_ip(p)[1]]
        /\ UNCHANGED <<status, result, codecVars>>

\* elif ns_domain := get_nameserver(response):
\*     nameserver = resolve(ns_domain, TYPE_A)    -- the call is entered
ResolveNameserver ==
    \E p \in Responses :
        /\ Queried("packet", p)
        /\ SocketLeft({0, 1})
        /\ ~Truthy(get_answer(p))
        /\ ~Truthy(get_nameserver_ip(p))
        /\ Truthy(get_nameserver(p))
        /\ Len(stack) < MaxDepth
        /\ stack' = Append(stack, Frame(get_nameserver(p)[1], TYPE_A))
        /\ UNCHANGED <<status, result, codecVars>>

\* else: raise Exception("something went wrong")
DeadEnd ==
    \E p \in Responses :
        /\ Queried("packet", p)
        /\ SocketLeft({0, 1})
        /\ ~Truthy(get_answer(p))
        /\ ~Truthy(get_nameserver_ip(p))
        /\ ~Truthy(get_nameserver(p))
        /\ Raise("Exception")
        /\ UNCHANGED codecVars

\* send_query raises in parse_dns_packet: the datagram does not decode
DecodeFails ==
    \E e \in DecodeErrors :
        /\ Queried("raised", NoPacket)
        /\ SocketLeft({1})
        /\ e # "none"
        /\ Raise(e)
        /\ UNCHANGED codecVars

\* send_query raises in socket(), before there is a socket, or in sendto()
\* or recvfrom()
TransportFails ==
    /\ Queried("raised", NoPacket)
    /\ SocketLeft({0, 1})
    /\ Raise("OSError")
    /\ UNCHANGED codecVars

Next ==
    \/ ReturnAnswer
    \/ FollowGlue
    \/ ResolveNameserver
    \/ DeadEnd
    \/ DecodeFails
    \/ TransportFails

Spec == Init /\ [][Next]_vars

----------------------------------------------------------------------------
(* Claims about resolve.  Every state of Spec is the state right after the *)
(* loop iteration that `last` describes, so a statement about what an      *)
(* iteration does is a state predicate over last, stack, status, result.   *)

HasType(records, type_) == \E i \in 1..Len(records) : records[i].type_ = type_

\* The latest send_query returned a packet.
Answered == last.outcome = "packet"

\* The invocation that sent the latest query has returned value v: to the
\* caller of the top-level resolve, or into its caller's nameserver.
ReturnedFromLast(v) ==
    IF last.depth = 1
    THEN status = "returned" /\ result.value = v /\ stack = << >>
    ELSE /\ status = "running"
         /\ Len(stack) = last.depth - 1
         /\ Top.nameserver = v

\* C1 (as claimed): whenever the answer section of a response holds a record
\* of the requested record type, the resolve that asked returns that
\* record's data and sends no further query.
C1_AnswerOfRequestedTypeReturned ==
    (Answered /\ HasType(last.response.answers, last.record_type))
        => ReturnedFromLast(
               FirstOfType(last.response.answers, last.record_type)[1].data)

\* C2 (as claimed): when a response has no answer record of the requested
\* type and its additional section holds an A record, the same invocation
\* goes on, for the same name and type, with the address of the first A
\* record of the additional section as its nameserver, and no nested resolve
\* is started.
C2_GlueIsNextNameserver ==
    (/\ Answered
     /\ ~HasType(last.response.answers, last.record_type)
     /\ HasType(last.response.additionals, TYPE_A))
        => /\ status = "running"
           /\ Len(stack) = last.depth
           /\ Top = [domain_name |-> last.domain_name,
                     record_type |-> last.record_type,
                     nameserver  |->
                         FirstOfType(last.response.additionals, TYPE_A)[1].data]

\* A nested resolve has just returned into the invocation below it.
NestedReturned ==
    /\ Answered
    /\ status = "running"
    /\ last.depth = Len(stack) + 1

\* C3 (as claimed): when a response has no answer of the requested type and
\* no A record in the additional section but an NS record in the authority
\* section, resolve(nsName, A) is entered for the first NS record's name,
\* starting at the root, with the outer invocation waiting unchanged; and
\* when a nested resolve returns, the outer invocation's nameserver is the
\* address returned.
C3_NameReferralRecurses ==
    /\ (/\ Answered
        /\ ~HasType(last.response.answers, last.record_type)
        /\ ~HasType(last.response.additionals, TYPE_A)
        /\ HasType(last.response.authorities, TYPE_NS))
           => /\ status = "running"
              /\ Len(stack) = last.depth + 1
              /\ Top = [domain_name |->
                            FirstOfType(last.response.authorities, TYPE_NS)[1].data,
                        record_type |-> TYPE_A,
                        nameserver  |-> ROOT]
              /\ stack[last.depth] = [domain_name |-> last.domain_name,
                                      record_type |-> last.record_type,
                                      nameserver  |-> last.ip]
    /\ NestedReturned
           => Top.nameserver = FirstOfType(last.response.answers, TYPE_A)[1].data

\* C4 (as claimed): a top-level resolve sends at most the configured number
\* of queries; a referral chain that would need more ends in an error.
C4_QueriesWithinHopLimit == nqueries <= HopLimit

\* C5 (as claimed): when a response has no answer record of the requested
\* type, no A record in the additional section and no NS record in the
\* authority section, resolve raises, and the exception ends every
\* enclosing resolve: it reaches the caller of the top-level one.
C5_DeadEndRaises ==
    (/\ Answered
     /\ ~HasType(last.response.answers, last.record_type)
     /\ ~HasType(last.response.additionals, TYPE_A)
     /\ ~HasType(last.response.authorities, TYPE_NS))
        => /\ status = "raised"
           /\ result.exc = "Exception"
           /\ stack = << >>

----------------------------------------------------------------------------
(* Claims about the codec, under SpecCodec. *)

\* Every label of the dotted name is lo..hi bytes long.
LabelsWithin(name, lo, hi) ==
    \A i \in 1..Len(Split(name)) :
        Len(Split(name)[i]) >= lo /\ Len(Split(name)[i]) <= hi

\* encode_dns_name followed by decode_name fails nowhere and, once done, has
\* given the name back.
RoundTrips ==
    /\ phase # "failed"
    /\ phase = "decoded" => name_out = input.name

\* C6 (as amended): for every ASCII dotted name whose labels are each 1 to 63
\* bytes long, and for the empty name, decode_name of the bytes of
\* encode_dns_name is the name.
C6_RoundTripNonEmptyLabels ==
    (/\ input.kind = "name"
     /\ input.name = << >> \/ LabelsWithin(input.name, 1, 63))
        => RoundTrips

\* C6 witness: a name of a 63-byte label and a second label, decoded back.
C6_Witness ==
    /\ input.kind = "name"
    /\ input.name = Label(63) \o << DOT, 97 >>
    /\ phase = "decoded"
    /\ name_out = input.name

\* C6 (as claimed): the same for every ASCII dotted name whose labels are at
\* most 63 bytes long, empty labels included.
C6_RoundTripAnyLabels ==
    (input.kind = "name" /\ LabelsWithin(input.name, 0, 63)) => RoundTrips

\* The packet is the query for d: one question (d, A, IN), counts 1, 0, 0, 0,
\* flags 0, no record.
IsQueryFor(d) ==
    /\ packet.header.flags = 0
    /\ packet.header.num_questions = 1
    /\ packet.header.num_answers = 0
    /\ packet.header.num_authorities = 0
    /\ packet.header.num_additionals = 0
    /\ packet.questions = << [name |-> d, type_ |-> TYPE_A, class_ |-> CLASS_IN] >>
    /\ packet.answers = << >>
    /\ packet.authorities = << >>
    /\ packet.additionals = << >>

QueryParsesBack ==
    /\ phase # "failed"
    /\ phase = "parsed" => IsQueryFor(input.name)

\* C7 (as amended): for every domain name d whose labels are each 1 to 63
\* bytes long, parse_dns_packet(build_query(d, A)) is a packet with exactly
\* one question, of type A, class IN and name d, counts 1, 0, 0, 0, flags 0
\* and no records.
C7_QueryParsesBackNonEmptyLabels ==
    (/\ input.kind = "query"
     /\ input.record_type = TYPE_A
     /\ LabelsWithin(input.name, 1, 63))
        => QueryParsesBack

\* C7 witness: the query for "a.b" with a non-zero id, parsed.
C7_Witness ==
    /\ input.kind = "query"
    /\ input.record_type = TYPE_A
    /\ input.name = << 97, DOT, 98 >>
    /\ input.id = 65535
    /\ phase = "parsed"
    /\ IsQueryFor(input.name)

\* C7 (as claimed): the same for every domain name d.
C7_QueryParsesBackAnyName ==
    (input.kind = "query" /\ input.record_type = TYPE_A) => QueryParsesBack

\* The records returned so far, in the order they were read.
RecordsRead == packet.answers \o packet.authorities \o packet.additionals

\* Where the single question of the buffer ends and its first record starts.
QuestionEnd == parse_question(data, 12).pos

\* A response with one question, parsed, whose first record has for name a
\* compression pointer to byte offset 12.
PointerCase ==
    /\ input.kind = "response"
    /\ packet.header.num_questions = 1
    /\ Len(packet.questions) = 1
    /\ Read(data, QuestionEnd, 2) = PointerTo12

\* Decoding the pointer gives the question's name: in decode_name at the
\* record's first byte, and in the record parse_record returns.
PointerNameIsQuestionName ==
    /\ decode_name(data, QuestionEnd).err = "none"
    /\ decode_name(data, QuestionEnd).val = packet.questions[1].name
    /\ decode_name(data, QuestionEnd).pos = QuestionEnd + 2
    /\ RecordsRead # << >> => RecordsRead[1].name = packet.questions[1].name

\* C8 (as amended): when a record's name is a compression pointer to byte
\* offset 12, parse_record gives the record the name decoded for the
\* question, for every question name whose labels are at most 63 bytes long.
C8_PointerToQuestionShortLabels ==
    (PointerCase /\ LabelsWithin(packet.questions[1].name, 0, 63))
        => PointerNameIsQuestionName

\* C8 witness: a three-label question name and an answer named by pointer.
C8_Witness ==
    /\ PointerCase
    /\ phase = "parsed"
    /\ packet.questions[1].name = << 97, 98, DOT, 98, DOT, 97 >>
    /\ Len(packet.answers) = 1
    /\ packet.answers[1].name = packet.questions[1].name

\* C8 (as claimed): the same for every question name.
C8_PointerToQuestionAnyName == PointerCase => PointerNameIsQuestionName

\* C9 (as claimed): decoding a name never follows more compression pointers
\* than the buffer has bytes and never runs into the interpreter's recursion
\* limit.
C9_PointerHopsBounded == hops <= Len(data) /\ raised # "RecursionError"

\* C10 (as claimed): no packet is returned with a record of type A or of an
\* opaque type whose data is shorter than the data length it declares.
C10_NoPartialRecord ==
    phase = "parsed"
        => \A i \in 1..Len(rdlog) :
               rdlog[i].type_ # TYPE_NS => rdlog[i].got = rdlog[i].declared

\* C11 (as claimed): no record of type A is returned whose declared data
\* length is not 4.
C11_AddressDataLengthIsFour ==
    \A i \in 1..Len(rdlog) : rdlog[i].type_ = TYPE_A => rdlog[i].declared = 4

----------------------------------------------------------------------------
(* Further claims about resolve, under Spec. *)

\* The latest send_query raised in the transport.
TransportFailed == last.outcome = "raised" /\ result.exc = "OSError"

\* C12: when the transport fails on a query, the failure leaves every
\* enclosing resolve and reaches the caller of the top-level one, and no
\* query is sent after it: no retry, no other nameserver.
C12_TransportFailureAborts ==
    /\ [](TransportFailed => status = "raised" /\ stack = << >>)
    /\ [][TransportFailed => nqueries' = nqueries /\ last' = last]_vars

\* A transport failure in a nested resolve has reached the top-level caller.
C12_Witness ==
    /\ TransportFailed
    /\ last.depth >= 2
    /\ status = "raised"

----------------------------------------------------------------------------
(* Further claims about the codec, under SpecCodec. *)

\* decode_name has returned the name of a buffer that holds a name alone.
NameDecoded == input.kind = "wire" /\ phase = "decoded"

\* C13 (as claimed): decode_name follows a pointer only from a length byte
\* with both top bits set; a first length byte in 0x40..0xBF is not followed
\* as a pointer.
C13_PointerOnlyWithBothTopBits ==
    (NameDecoded /\ data[1] \in 64..191) => hops = 0

\* The offset of the first element of the name at pos that decode_name takes
\* for a pointer, stepping over the labels before it.
RECURSIVE FirstPointer(_, _)
FirstPointer(buf, pos) ==
    IF IsCompressed(buf[pos + 1]) THEN pos
    ELSE FirstPointer(buf, pos + 1 + buf[pos + 1])

\* C14: after decode_name has read a name that ends in a pointer, the cursor
\* is just after the pointer's two bytes, wherever the pointer leads and
\* however many pointers follow it there.
C14_CursorAfterPointer ==
    (NameDecoded /\ hops > 0) => reader = FirstPointer(data, 0) + 2

\* A name was decoded through a chain of two pointers, the first after a label.
C14_Witness ==
    /\ NameDecoded
    /\ hops = 2
    /\ FirstPointer(data, 0) = 2
    /\ reader = 4

\* The sections of the packet being read fill in the order questions,
\* answers, authorities, additionals.
SectionsInOrder ==
    /\ packet.answers # << >>
           => Len(packet.questions) = packet.header.num_questions
    /\ packet.authorities # << >>
           => Len(packet.answers) = packet.header.num_answers
    /\ packet.additionals # << >>
           => Len(packet.authorities) = packet.header.num_authorities

\* C15: every packet parse_dns_packet returns has as many questions,
\* answers, authorities and additionals as its header counts, the counts
\* being those of the buffer's header, and the sections were read in that
\* order, each entity from where the one before it ended.
C15_SectionLengthsAreCounts ==
    /\ phase \in {"body", "parsed"} => SectionsInOrder
    /\ phase = "parsed" =>
           /\ Len(packet.questions) = Unpack16(SubSeq(data, 5, 6))
           /\ Len(packet.answers) = Unpack16(SubSeq(data, 7, 8))
           /\ Len(packet.authorities) = Unpack16(SubSeq(data, 9, 10))
           /\ Len(packet.additionals) = Unpack16(SubSeq(data, 11, 12))
           /\ packet = parse_dns_packet(data).val

\* A packet with a question, an authority and two additionals was returned.
C15_Witness ==
    /\ phase = "parsed"
    /\ input.kind = "response"
    /\ Len(packet.questions) = 1
    /\ Len(packet.authorities) = 1
    /\ Len(packet.additionals) = 2

----------------------------------------------------------------------------
(* Further claims about resolve, under Spec (continued). *)

\* The innermost resolve has been entered and has sent no query yet.
JustEntered == status = "running" /\ Len(stack) = last.depth + 1

\* What one loop iteration may do to the invocations.
C16_Step ==
    \* the first query of an invocation goes to the root
    /\ JustEntered => last'.ip = ROOT
    \* every query asks the invocation's nameserver for its (d, t)
    /\ nqueries' = nqueries + 1
           => /\ last'.ip = Top.nameserver
              /\ last'.domain_name = Top.domain_name
              /\ last'.record_type = Top.record_type
              /\ last'.depth = Len(stack)
    \* an invocation that goes on keeps its (d, t), the outer ones everything
    /\ Len(stack') = Len(stack)
           => stack' = [stack EXCEPT ![Len(stack)].nameserver =
                                         stack'[Len(stack)].nameserver]
    \* a nested resolve is entered for TYPE_A with the outer ones waiting
    /\ Len(stack') = Len(stack) + 1
           => /\ SubSeq(stack', 1, Len(stack)) = stack
              /\ Top'.record_type = TYPE_A
    \* a nested resolve that returns sets its caller's nameserver, only
    /\ (status' = "running" /\ Len(stack') = Len(stack) - 1)
           => stack' = [SubSeq(stack, 1, Len(stack) - 1)
                          EXCEPT ![Len(stack) - 1].nameserver =
                              FirstOfType(last'.response.answers, TYPE_A)[1].data]

\* C16: every resolve, top-level or nested, sends its first query to the
\* root address; all queries of one resolve(d, t) ask for (d, t); entering
\* a nested resolve leaves the outer ones as they are, and its return
\* changes the caller's nameserver, to the value returned, and nothing else.
C16_NestedStartsAtRootOuterKept ==
    /\ [](JustEntered => Top.nameserver = ROOT)
    /\ [][C16_Step]_vars

\* A resolve nested in a nested one has returned an address to its caller,
\* which still asks for the name it was entered for.
C16_Witness ==
    /\ status = "running"
    /\ Answered
    /\ last.depth = 3
    /\ Len(stack) = 2
    /\ Top.nameserver = FirstOfType(last.response.answers, TYPE_A)[1].data
    /\ Top.nameserver # ROOT
    /\ Top.record_type = TYPE_A
    /\ stack[1].domain_name = << 97, DOT, 98 >>

\* C17 (as claimed): the socket of a query is closed before send_query
\* returns or fails, on every exit path: between two queries, and after the
\* resolution, no socket is open.
C17_SocketClosedOnEveryExit == open_sockets = 0

\* The response read holds an NS record with the data "ns.a.b" in 5 bytes,
\* the last two labels by pointer, and after it an A record.
NsCase == input.kind = "response" /\ input.bytes \in NsResponses

\* C18: the data of an NS record is the name decoded, pointers followed,
\* from where the data starts; the cursor then stands where that decode
\* left it, whatever data length the record declares, and the next record
\* is decoded from there.
C18_NsDataIsDecodedName ==
    /\ \A i \in 1..Len(rdlog) :
           rdlog[i].type_ = TYPE_NS => rdlog[i].got \in 1..Len(data)
    /\ (NsCase /\ packet.authorities # << >>)
           => /\ packet.authorities[1].data
                     = << 110, 115, DOT, 97, DOT, 98 >>
              /\ rdlog[1].got = Len(NsData)
    /\ (NsCase /\ phase = "parsed")
           => /\ packet.additionals[1].name = << 97, DOT, 98 >>
              /\ packet.additionals[1].type_ = TYPE_A
              /\ packet.additionals[1].data
                     = << 49, 57, 50, DOT, 53, DOT, 54, DOT, 51, 48 >>
              /\ reader = Len(data)

\* An NS record that declares 9 data bytes was read in 5, and the record
\* after it was returned.
C18_Witness ==
    /\ NsCase
    /\ phase = "parsed"
    /\ rdlog[1].type_ = TYPE_NS
    /\ rdlog[1].declared = 9
    /\ rdlog[1].got = 5
    /\ Len(packet.additionals) = 1

\* C19 (as claimed): encode_dns_name fails for a name with a label of more
\* than 63 bytes, so an encoded name comes only from labels of at most 63
\* bytes and holds no length byte above 63.
C19_LongLabelRejected ==
    (input.kind = "name" /\ phase = "encoded")
        => /\ LabelsWithin(input.name, 0, 63)
           /\ data[1] <= 63

\* The data of the first A record of a section, which has one.
FirstAddress(records) == FirstOfType(records, TYPE_A)[1].data

\* The invocation that sent the latest query goes on with another nameserver.
GlueFollowed == Answered /\ status = "running" /\ Len(stack) = last.depth

\* C20: a value resolve returns, to its caller or into the nameserver of the
\* resolve it is nested in, is the non-empty data of the first A record of
\* the answer section of the response just received; a nameserver taken as
\* glue is the non-empty data of the first A record of its additional
\* section; and a first A record whose data is the empty string is passed
\* over: nothing is returned from it, no glue is taken from it, the next
\* shape of referral is tried.
C20_AddressesAreNonEmptyRecordData ==
    /\ status = "returned"
           => /\ Answered
              /\ HasType(last.response.answers, TYPE_A)
              /\ result.value = FirstAddress(last.response.answers)
              /\ result.value # << >>
    /\ NestedReturned
           => /\ HasType(last.response.answers, TYPE_A)
              /\ Top.nameserver = FirstAddress(last.response.answers)
              /\ Top.nameserver # << >>
    /\ GlueFollowed
           => /\ HasType(last.response.additionals, TYPE_A)
              /\ Top.nameserver = FirstAddress(last.response.additionals)
              /\ Top.nameserver # << >>
    /\ nqueries > 0 => last.ip # << >>
    /\ (/\ Answered
        /\ HasType(last.response.answers, TYPE_A)
        /\ FirstAddress(last.response.answers) = << >>)
           => /\ status # "returned"
              /\ ~NestedReturned
              /\ (HasType(last.response.additionals, TYPE_A)
                    /\ FirstAddress(last.response.additionals) # << >>)
                       => GlueFollowed
    /\ (/\ Answered
        /\ HasType(last.response.additionals, TYPE_A)
        /\ FirstAddress(last.response.additionals) = << >>)
           => ~GlueFollowed

\* The answer's first A record had empty data and glue was followed instead.
C20_Witness ==
    /\ GlueFollowed
    /\ HasType(last.response.answers, TYPE_A)
    /\ FirstAddress(last.response.answers) = << >>
    /\ Top.nameserver = FirstAddress(last.response.additionals)
    /\ Top.nameserver # << >>

====
